---- MODULE Spec2Model ----
(***************************************************************************)
(* Skill-Maker: the interviewer (expert_interviewer.py), the code scanner  *)
(* (scan_code.py) and the schema compiler (skill_compiler.py) acting on    *)
(* one skill package (manifest.json, SKILL.md, tools/).                    *)
(*                                                                         *)
(* Text is a sequence of one-symbol strings.  Indices are Python's         *)
(* (0-based); Slice(t, a, b) is t[a:b].                                    *)
(***************************************************************************)
EXTENDS Integers, Sequences, FiniteSets, TLC

VARIABLES
    pc,             \* position of the running entry point
    pkg,            \* which files of the package exist on disk
    manifest,       \* content of manifest.json
    skill_md,       \* content of SKILL.md
    tools_dir,      \* tools/ : file name -> "absent" | "ok" | "bad" (syntax error)
    schema_file,    \* tools_schema.json: <<>> when never written, else <<schema>>
    calls,          \* generative-service calls made, per kind
    messages,       \* run_interview: messages
    assistant_text, \* run_interview: assistant_text
    user_input,     \* run_interview: user_input
    terminated,     \* run_interview: which break left the loop
    result_text,    \* generate_documents / generate_tool_schema: result_text
    tools,          \* skill_compiler.main: tools (the scan result)
    func_name,      \* update_manifest: func_name of the last call
    skill_doc,      \* update_skill_md: skill_doc of the last call
    content,        \* update_skill_md: content as read from SKILL.md
    loaded,         \* manifest as read by the last json.load(f) of a merge
    parse_args,     \* parse_between: the arguments (text, start_marker, end_marker)
    parsed,         \* parse_between: the value returned
    file_path,      \* scan_code.main: file_path and whether it is a file
    analysis,       \* scan_code.main: analysis
    answer,         \* prompt_user_confirmation: what input() returned
    functions,      \* scan_code.main: functions
    done,           \* scan_code.main: candidates the for loop has finished with
    refactored,     \* scan_code.main: (tool_code, skill_doc) of refactor_to_tool
    create_args,    \* create_skill: name, author, industry
    edits           \* update_skill_md calls made so far

vars == <<pc, pkg, manifest, skill_md, tools_dir, schema_file, calls, messages,
          assistant_text, user_input, terminated, result_text, tools,
          func_name, skill_doc, content, loaded, edits,
          parse_args, parsed, file_path, analysis, answer, functions, done, refactored, create_args>>

-----------------------------------------------------------------------------
(* Bounds of the model *)

MaxTurns == 2

MaxInitTools == 2

MaxCompiles == 1

MaxDocChunks == 3

MaxEdits == 2

-----------------------------------------------------------------------------
(* Python string primitives *)

MinOf(S) == CHOOSE x \in S : \A y \in S : x <= y

\* t[a:b] for 0 <= a, 0 <= b
Slice(t, a, b) == SubSeq(t, a + 1, IF b > Len(t) THEN Len(t) ELSE b)

\* t.find(sub, start): lowest index >= start at which sub occurs, else -1
Find(t, sub, start) ==
    LET hits == {i \in start..(Len(t) - Len(sub)) : SubSeq(t, i + 1, i + Len(sub)) = sub}
    IN IF hits = {} THEN -1 ELSE MinOf(hits)

\* sub in t
Contains(t, sub) == Find(t, sub, 0) # -1

Whitespace == {" ", "\n", "\t", "\r"}

RECURSIVE RStrip(_)
RStrip(t) ==
    IF t # <<>> /\ t[Len(t)] \in Whitespace THEN RStrip(SubSeq(t, 1, Len(t) - 1)) ELSE t

RECURSIVE LStrip(_)
LStrip(t) ==
    IF t # <<>> /\ t[1] \in Whitespace THEN LStrip(SubSeq(t, 2, Len(t))) ELSE t

Strip(t) == RStrip(LStrip(t))

LowerOf(c) ==
    CASE c = "Q" -> "q" [] c = "U" -> "u" [] c = "I" -> "i" [] c = "T" -> "t"
      [] c = "E" -> "e" [] c = "X" -> "x" [] c = "Y" -> "y" [] OTHER -> c

Lower(t) == [i \in 1..Len(t) |-> LowerOf(t[i])]

-----------------------------------------------------------------------------
(* parse_between: the marker codec.  None is [none |-> TRUE]. *)

None == [none |-> TRUE, text |-> <<>>]

Some(t) == [none |-> FALSE, text |-> t]

\* parse_between reading to the end of the text when the end marker is missing
ParseBetween_OpenEnded(text, start_marker, end_marker) ==
    LET start == Find(text, start_marker, 0)
        end   == Find(text, end_marker, 0)
    IN IF start = -1
       THEN None
       ELSE Some(Slice(text, start + Len(start_marker),
                       IF end = -1 THEN Len(text) ELSE end))

\* lines 136-142
ParseBetween(text, start_marker, end_marker) ==
    LET start == Find(text, start_marker, 0)
        end   == Find(text, end_marker, 0)
    IN IF start = -1 \/ end = -1
       THEN None
       ELSE Some(Slice(text, start + Len(start_marker), end))

\* Python truthiness of an Optional[str]
Truthy(r) == ~r.none /\ r.text # <<>>

\* no call of parse_between made yet
NoArgs == [text |-> <<>>, start_marker |-> <<>>, end_marker |-> <<>>]

-----------------------------------------------------------------------------
(* The package on disk *)

ValidPkg == [dir |-> TRUE, manifest_json |-> TRUE, skill_md_file |-> TRUE, tools_subdir |-> TRUE]

PkgStates ==
    { ValidPkg,
      [ValidPkg EXCEPT !.dir = FALSE, !.manifest_json = FALSE,
                       !.skill_md_file = FALSE, !.tools_subdir = FALSE],
      [ValidPkg EXCEPT !.manifest_json = FALSE],
      [ValidPkg EXCEPT !.skill_md_file = FALSE],
      [ValidPkg EXCEPT !.tools_subdir = FALSE] }

\* MANIFEST_TEMPLATE with name, author, industry filled in by create_skill
ManifestOf(name, description, tags, tool_names) ==
    [name |-> name, version |-> "0.1.0", author |-> "anonymous",
     description |-> description, industry |-> "finance", tags |-> tags,
     tools |-> tool_names, knowledge |-> <<>>]

\* names are sequences of characters
INIT_PY == <<"_", "_", "i", "n", "i", "t", "_", "_", ".", "p", "y">>

A_PY == <<"a", ".", "p", "y">>

B_PY == <<"b", ".", "p", "y">>

C_PY == <<"c", ".", "p", "y">>

A_TXT == <<"a", ".", "t", "x", "t">>

\* tools/example_tool.py, written by create_skill
EXAMPLE_TOOL_PY ==
    <<"e", "x", "a", "m", "p", "l", "e", "_", "t", "o", "o", "l", ".", "p", "y">>

FileUniverse == {INIT_PY, A_PY, B_PY, C_PY, A_TXT, EXAMPLE_TOOL_PY}

\* tool names a candidate or a manifest entry may carry; x has no file
ToolNames == { <<"a">>, <<"b">>, <<"x">> }

NoFiles == [f \in FileUniverse |-> "absent"]

NoCalls == [interview |-> 0, generation |-> 0, schema |-> 0, analysis |-> 0, refactor |-> 0]

\* create_skill not called
NoCreate == [name |-> "", author |-> "", industry |-> ""]

\* scan_code.main not started: no input file, no analysis, nothing refactored
NoFile == [name |-> <<>>, isfile |-> FALSE]

NoAnalysis == [keys |-> {"found", "functions"}, found |-> FALSE, functions |-> <<>>]

NoRefactor == [tool_code |-> None, skill_doc |-> None]

-----------------------------------------------------------------------------
(* expert_interviewer.py *)

\* the end-of-interview sentinel of INTERVIEW_SYSTEM_PROMPT, as three symbols
SENTINEL == <<"[", "interview-over", "]">>

\* the synthetic opening turn
SeedTurn == [role |-> "user", content |-> <<"please-start">>]

\* what the service may answer during the interview
Responses ==
    { <<"q">>,
      <<"q", "[", "interview-over", "]">>,
      <<"[", "interview-over", "]", "q">>,
      <<"[", "interview-over">>,
      <<"interview-over">> }

\* what the human may type (before .strip())
Inputs ==
    { <<"a">>,
      <<>>,
      <<"q", "u", "i", "t">>,
      <<"Q", "U", "I", "T">>,
      <<" ", "E", "x", "i", "t", "\n">>,
      <<"q", "u", "i", "t", "s">> }

CancelTokens == { <<"q", "u", "i", "t">>, <<"e", "x", "i", "t">> }

\* validate_skill_dir passes
ValidSkillDir(p) == p.dir /\ p.manifest_json /\ p.skill_md_file

\* line 81 with the sentinel written without its brackets
HasSentinel_NoBrackets(text) == Contains(text, <<"interview-over">>)

\* line 81: the sentinel occurs in assistant_text
HasSentinel(text) == Contains(text, SENTINEL)

\* line 86 without .lower()
IsCancel_NoLower(u) == u \in CancelTokens

\* line 86: user_input.lower() in ("quit", "exit")
IsCancel(u) == Lower(u) \in CancelTokens

\* line 76 with >= for ==
NeedsSeed_Always(msgs) == Len(msgs) >= 1

\* line 76: len(messages) == 1, the first response has just been appended
NeedsSeed(msgs) == Len(msgs) = 1

\* len(messages) >= 2 in main
EnoughContent(msgs) == Len(msgs) >= 2

\* main, lines 150-154: validate_skill_dir, then run_interview starts with messages = []
InterviewMain ==
    /\ pc = "main"
    /\ IF ValidSkillDir(pkg)
       THEN pc' = "loop" /\ messages' = <<>>
       ELSE pc' = "exit1" /\ UNCHANGED messages
    /\ UNCHANGED <<edits, pkg, create_args, refactored, done, functions, answer, analysis, file_path, parsed, parse_args, manifest, skill_md, tools_dir, schema_file, calls,
                   assistant_text, user_input, terminated, result_text, tools,
                   func_name, skill_doc, content, loaded>>

\* lines 66-73: one service call, the answer appended as an assistant turn
InterviewCall ==
    /\ pc = "loop"
    /\ calls.interview < MaxTurns
    /\ \E r \in Responses :
         /\ assistant_text' = r
         /\ messages' = Append(messages, [role |-> "assistant", content |-> r])
    /\ calls' = [calls EXCEPT !.interview = @ + 1]
    /\ pc' = "seed"
    /\ UNCHANGED <<edits, pkg, create_args, refactored, done, functions, answer, analysis, file_path, parsed, parse_args, manifest, skill_md, tools_dir, schema_file,
                   user_input, terminated, result_text, tools,
                   func_name, skill_doc, content, loaded>>

\* lines 76-77: the opening turn is inserted in front of the first answer
InterviewSeed ==
    /\ pc = "seed"
    /\ messages' = IF NeedsSeed(messages) THEN <<SeedTurn>> \o messages ELSE messages
    /\ pc' = "sentinel"
    /\ UNCHANGED <<edits, pkg, create_args, refactored, done, functions, answer, analysis, file_path, parsed, parse_args, manifest, skill_md, tools_dir, schema_file, calls,
                   assistant_text, user_input, terminated, result_text, tools,
                   func_name, skill_doc, content, loaded>>

\* lines 81-83
InterviewSentinel ==
    /\ pc = "sentinel"
    /\ IF HasSentinel(assistant_text)
       THEN terminated' = "signaled" /\ pc' = "returned"
       ELSE terminated' = terminated /\ pc' = "input"
    /\ UNCHANGED <<edits, pkg, create_args, refactored, done, functions, answer, analysis, file_path, parsed, parse_args, manifest, skill_md, tools_dir, schema_file, calls, messages,
                   assistant_text, user_input, result_text, tools,
                   func_name, skill_doc, content, loaded>>

\* lines 85-90
InterviewInput ==
    /\ pc = "input"
    /\ \E raw \in Inputs :
         /\ user_input' = Strip(raw)
         /\ IF IsCancel(Strip(raw))
            THEN /\ terminated' = "cancelled"
                 /\ pc' = "returned"
                 /\ UNCHANGED messages
            ELSE /\ messages' = Append(messages, [role |-> "user", content |-> Strip(raw)])
                 /\ pc' = "loop"
                 /\ UNCHANGED terminated
    /\ UNCHANGED <<edits, pkg, create_args, refactored, done, functions, answer, analysis, file_path, parsed, parse_args, manifest, skill_md, tools_dir, schema_file, calls,
                   assistant_text, result_text, tools,
                   func_name, skill_doc, content, loaded>>

\* main, lines 156-159
InterviewGate ==
    /\ pc = "returned"
    /\ pc' = IF EnoughContent(messages) THEN "generate" ELSE "skipped"
    /\ UNCHANGED <<edits, pkg, create_args, refactored, done, functions, answer, analysis, file_path, parsed, parse_args, manifest, skill_md, tools_dir, schema_file, calls, messages,
                   assistant_text, user_input, terminated, result_text, tools,
                   func_name, skill_doc, content, loaded>>

-----------------------------------------------------------------------------
(* generate_documents *)

SKILL_MD_START == <<"---SKILL_MD_START---">>

SKILL_MD_END == <<"---SKILL_MD_END---">>

MANIFEST_JSON_START == <<"---MANIFEST_JSON_START---">>

MANIFEST_JSON_END == <<"---MANIFEST_JSON_END---">>

\* json.loads of one JSON text: the decoded object, keys = the keys it has
JsonObject(keys, description, tags) ==
    [ok |-> TRUE, kind |-> "object", keys |-> keys, description |-> description,
     tags |-> tags, items |-> <<>>]

\* a decoded JSON array (of tool schema records, each given by its name)
JsonArray(items) ==
    [ok |-> TRUE, kind |-> "array", keys |-> {}, description |-> "", tags |-> <<>>,
     items |-> items]

\* json.loads raises JSONDecodeError
JsonError ==
    [ok |-> FALSE, kind |-> "error", keys |-> {}, description |-> "", tags |-> <<>>,
     items |-> <<>>]

JsonTexts ==
    { "{}",
      "{\"description\": \"d1\"}",
      "{\"tags\": [\"t1\"]}",
      "{\"description\": \"d1\", \"tags\": [\"t1\"]}",
      "{\"description\": \"\", \"tags\": []}",
      "{\"description\": \"d1\"",
      "[]" }

JsonDecode(j) ==
    CASE j = "{}" -> JsonObject({}, "", <<>>)
      [] j = "{\"description\": \"d1\"}" -> JsonObject({"description"}, "d1", <<>>)
      [] j = "{\"tags\": [\"t1\"]}" -> JsonObject({"tags"}, "", <<"t1">>)
      [] j = "{\"description\": \"d1\", \"tags\": [\"t1\"]}" ->
             JsonObject({"description", "tags"}, "d1", <<"t1">>)
      [] j = "{\"description\": \"\", \"tags\": []}" ->
             JsonObject({"description", "tags"}, "", <<>>)
      [] j = "{\"name\": \"other\", \"version\": \"9\", \"description\": \"d1\"}" ->
             JsonObject({"name", "version", "description"}, "d1", <<>>)
                @@ [name |-> "other", version |-> "9"]
      [] j = "[]" -> JsonArray(<<>>)
      [] j = "[{\"name\": \"a\"}]" -> JsonArray(<<"a">>)
      [] OTHER -> JsonError

\* json.loads(s): s must be exactly one JSON text
JsonLoads(s) == IF Len(s) = 1 THEN JsonDecode(s[1]) ELSE JsonError

\* updates.get(key, default)
DictGet(updates, key, default) == IF key \in updates.keys THEN updates[key] ELSE default

\* lines 127-128 taking over name and version as well, when the payload has them
MergeUpdates_AllKeys(m, updates) ==
    [m EXCEPT !.description = DictGet(updates, "description", m.description),
              !.tags = DictGet(updates, "tags", m.tags),
              !.name = DictGet(updates, "name", m.name),
              !.version = DictGet(updates, "version", m.version)]

\* lines 127-128
MergeUpdates(m, updates) ==
    [m EXCEPT !.description = DictGet(updates, "description", m.description),
              !.tags = DictGet(updates, "tags", m.tags)]

\* the document block of a response
MdParts ==
    { <<>>,
      SKILL_MD_START \o <<"\n", "doc1", "\n">> \o SKILL_MD_END,
      SKILL_MD_START \o <<"doc1">>,
      <<"doc1">> \o SKILL_MD_END,
      SKILL_MD_END \o SKILL_MD_START \o <<"doc1">>,
      SKILL_MD_START \o <<"\n">> \o SKILL_MD_END }

\* the manifest block of a response
MjParts ==
    { <<>>, MANIFEST_JSON_START \o <<"{}">>, <<"{}">> \o MANIFEST_JSON_END }
    \cup { MANIFEST_JSON_START \o <<"\n", j, "\n">> \o MANIFEST_JSON_END : j \in JsonTexts }
    \cup { MANIFEST_JSON_START \o <<"{}", "{}">> \o MANIFEST_JSON_END,
           MANIFEST_JSON_START \o <<" ">> \o MANIFEST_JSON_END }

ResultTexts == { md \o <<"\n">> \o mj : md \in MdParts, mj \in MjParts }

\* lines 104-110: the generation call
GenerateCall ==
    /\ pc = "generate"
    /\ \E r \in ResultTexts : result_text' = r
    /\ calls' = [calls EXCEPT !.generation = @ + 1]
    /\ pc' = "write_md"
    /\ UNCHANGED <<edits, pkg, create_args, refactored, done, functions, answer, analysis, file_path, parsed, parse_args, manifest, skill_md, tools_dir, schema_file, messages,
                   assistant_text, user_input, terminated, tools,
                   func_name, skill_doc, content, loaded>>

\* lines 113-118: the document block, when present, replaces SKILL.md
GenerateWriteMd ==
    /\ pc = "write_md"
    /\ LET block == ParseBetween(result_text, SKILL_MD_START, SKILL_MD_END)
       IN skill_md' = IF Truthy(block) THEN Strip(block.text) \o <<"\n">> ELSE skill_md
    /\ pc' = "merge"
    /\ UNCHANGED <<edits, pkg, create_args, refactored, done, functions, answer, analysis, file_path, parsed, parse_args, manifest, tools_dir, schema_file, calls, messages,
                   assistant_text, user_input, terminated, result_text, tools,
                   func_name, skill_doc, content, loaded>>

\* lines 121-131: the manifest block, when present, is decoded and merged;
\* json.loads raising (or updates not being an object, so that .get raises)
\* leaves the run with an unhandled exception
GenerateMerge ==
    /\ pc = "merge"
    /\ LET manifest_str == ParseBetween(result_text, MANIFEST_JSON_START, MANIFEST_JSON_END)
           updates == JsonLoads(Strip(manifest_str.text))
       IN IF ~Truthy(manifest_str)
          THEN pc' = "done" /\ UNCHANGED <<manifest, loaded>>
          ELSE /\ loaded' = manifest
               /\ IF updates.ok /\ updates.kind = "object"
                  THEN pc' = "done" /\ manifest' = MergeUpdates(manifest, updates)
                  ELSE pc' = "raised" /\ UNCHANGED manifest
    /\ UNCHANGED <<edits, pkg, create_args, refactored, done, functions, answer, analysis, file_path, parsed, parse_args, tools_dir, schema_file, skill_md, calls, messages,
                   assistant_text, user_input, terminated, result_text, tools,
                   func_name, skill_doc, content>>

InitialManifests ==
    { ManifestOf("risk-eval", d, t, <<>>) : d \in {"", "d0"}, t \in {<<>>, <<"t0">>} }

InitInterviewer ==
    /\ pc = "main"
    /\ pkg \in PkgStates
    /\ manifest \in InitialManifests
    /\ skill_md = <<"doc0", "\n">>
    /\ tools_dir = NoFiles
    /\ schema_file = <<>>
    /\ calls = NoCalls
    /\ messages = <<>>
    /\ assistant_text = <<>>
    /\ user_input = <<>>
    /\ terminated = "no"
    /\ result_text = <<>>
    /\ tools = <<>>
    /\ func_name = <<>>
    /\ skill_doc = <<>>
    /\ content = <<>>
    /\ loaded = ManifestOf("", "", <<>>, <<>>)
    /\ edits = 0
    /\ create_args = NoCreate
    /\ refactored = NoRefactor
    /\ done = 0
    /\ functions = <<>>
    /\ answer = None
    /\ analysis = NoAnalysis
    /\ file_path = NoFile
    /\ parsed = None
    /\ parse_args = NoArgs

NextInterviewer ==
    \/ InterviewMain
    \/ InterviewCall
    \/ InterviewSeed
    \/ InterviewSentinel
    \/ InterviewInput
    \/ InterviewGate
    \/ GenerateCall
    \/ GenerateWriteMd
    \/ GenerateMerge

SpecInterviewer == InitInterviewer /\ [][NextInterviewer]_vars

-----------------------------------------------------------------------------
(* Claims about the interviewer, checked under SpecInterviewer *)

\* indices of the human (respondent) turns beyond the seed turn
RespondentTurns(msgs) == {i \in 2..Len(msgs) : msgs[i].role = "user"}

PastGate == {"generate", "write_md", "merge", "done", "raised", "skipped"}

\* C1: once main has decided, document generation runs (and the generation
\* service is called) only if the conversation holds at least one human turn
\* beyond the seed; with zero human answers it is skipped and never called.
C1_GenerationNeedsHumanTurn ==
    pc \in PastGate =>
        IF RespondentTurns(messages) = {}
        THEN pc = "skipped" /\ calls.generation = 0
        ELSE pc # "skipped"

Alternating(msgs) == \A i \in 1..(Len(msgs) - 1) : msgs[i].role # msgs[i + 1].role

RECURSIVE IsSubseq(_, _)
IsSubseq(a, b) ==
    IF a = <<>> THEN TRUE
    ELSE IF b = <<>> THEN FALSE
    ELSE IF a[1] = b[1] THEN IsSubseq(Tail(a), Tail(b))
    ELSE IsSubseq(a, Tail(b))

\* C2: in every state of the message list no two adjacent turns have the same
\* role, and every step keeps all recorded turns, in their relative order.
C2_AlternatingAppendOnly ==
    [][Alternating(messages') /\ IsSubseq(messages, messages')]_vars

C2_Witness ==
    /\ pc = "sentinel"
    /\ Len(messages) >= 4
    /\ messages[1] = SeedTurn
    /\ messages[3].role = "user"

\* C3: once the current response contains the sentinel, no further service
\* call is made and no human input is asked for, and the sentinel check ends
\* the loop as signaled; an input equal to quit/exit ignoring case ends the
\* loop as cancelled, with no further call and without being recorded.
C3_SignalEndsLoop ==
    [][ /\ Contains(assistant_text, SENTINEL) =>
              /\ calls'.interview = calls.interview
              /\ pc # "input" /\ pc' \notin {"input", "loop"}
              /\ (pc = "sentinel" =>
                    pc' = "returned" /\ terminated' = "signaled" /\ messages' = messages)
        /\ (pc = "input" /\ Lower(user_input') \in CancelTokens) =>
              /\ pc' = "returned"
              /\ terminated' = "cancelled"
              /\ messages' = messages
              /\ calls' = calls ]_vars

C3_Witness ==
    /\ pc = "returned"
    /\ terminated = "cancelled"
    /\ user_input = <<"Q", "U", "I", "T">>
    /\ Len(messages) = 4

\* C4: the loop is left only by one of its two signals: every state past the
\* loop has reason signaled with the sentinel in the last response, or reason
\* cancelled with the last input a cancellation token; until then the run is
\* calling the service or waiting for input.
C4_NoSpontaneousTermination ==
    (pc \notin {"main", "exit1", "loop", "seed", "sentinel", "input"} \/ terminated # "no") =>
        \/ terminated = "signaled" /\ Contains(assistant_text, SENTINEL)
        \/ terminated = "cancelled" /\ Lower(user_input) \in CancelTokens

C4_Witness ==
    /\ pc = "returned"
    /\ terminated = "signaled"
    /\ Len(messages) = 4

\* C5: after a decoded manifest update is merged, description and tags hold
\* the update's value where it supplies a non-empty one, and the value read
\* from the manifest where it omits the field or supplies an empty value.
C5_OverwriteOnlyIfNonEmpty ==
    LET manifest_str == ParseBetween(result_text, MANIFEST_JSON_START, MANIFEST_JSON_END)
        updates == JsonLoads(Strip(manifest_str.text))
    IN (pc = "done" /\ Truthy(manifest_str) /\ updates.ok /\ updates.kind = "object") =>
          /\ manifest.description =
                IF "description" \in updates.keys /\ updates.description # ""
                THEN updates.description ELSE loaded.description
          /\ manifest.tags =
                IF "tags" \in updates.keys /\ updates.tags # <<>>
                THEN updates.tags ELSE loaded.tags

-----------------------------------------------------------------------------
(* tools/ and the manifest's tools list: scan_code.update_manifest and          *)
(* skill_compiler.py.  Names are sequences of characters.                   *)

DirStates ==
    { d \in [FileUniverse -> {"absent", "ok", "bad"}] :
        d[INIT_PY] # "bad" /\ d[A_TXT] # "bad" /\ d[EXAMPLE_TOOL_PY] = "absent" }

\* ord(c) of the characters file names are made of
Ord(c) ==
    CASE c = "." -> 46 [] c = "_" -> 95 [] c = "a" -> 97 [] c = "b" -> 98 [] c = "c" -> 99
      [] c = "e" -> 101 [] c = "i" -> 105 [] c = "l" -> 108 [] c = "m" -> 109
      [] c = "n" -> 110 [] c = "o" -> 111 [] c = "p" -> 112 [] c = "t" -> 116
      [] c = "x" -> 120 [] c = "y" -> 121

\* u < v on Python strings
RECURSIVE LexLess(_, _)
LexLess(u, v) ==
    IF v = <<>> THEN FALSE
    ELSE IF u = <<>> THEN TRUE
    ELSE IF Ord(u[1]) # Ord(v[1]) THEN Ord(u[1]) < Ord(v[1])
    ELSE LexLess(Tail(u), Tail(v))

RECURSIVE InsertSorted(_, _)
InsertSorted(x, s) ==
    IF s = <<>> THEN <<x>>
    ELSE IF LexLess(x, s[1]) THEN <<x>> \o s
    ELSE <<s[1]>> \o InsertSorted(x, Tail(s))

\* sorted(listing)
RECURSIVE SortedList(_)
SortedList(s) == IF s = <<>> THEN <<>> ELSE InsertSorted(s[1], SortedList(Tail(s)))

\* os.listdir: the files present, in any order
Listings(d) ==
    LET present == {f \in FileUniverse : d[f] # "absent"}
    IN { l \in [1..Cardinality(present) -> present] :
           \A i, j \in 1..Cardinality(present) : i # j => l[i] # l[j] }

EndsWith(t, suffix) ==
    Len(t) >= Len(suffix) /\ SubSeq(t, Len(t) - Len(suffix) + 1, Len(t)) = suffix

\* lines 79-80: the file is skipped
NotATool(filename) == ~EndsWith(filename, <<".", "p", "y">>) \/ filename = INIT_PY

\* lines 78-104 giving up at the first file that does not parse
RECURSIVE ScanSorted_StopAtBad(_, _)
ScanSorted_StopAtBad(files, d) ==
    IF files = <<>> THEN <<>>
    ELSE IF NotATool(files[1])
         THEN ScanSorted_StopAtBad(Tail(files), d)
         ELSE IF d[files[1]] = "bad"
              THEN <<>>
              ELSE <<[name |-> Slice(files[1], 0, Len(files[1]) - 3)]>>
                     \o ScanSorted_StopAtBad(Tail(files), d)

\* lines 78-104 over an already sorted listing
RECURSIVE ScanSorted(_, _)
ScanSorted(files, d) ==
    IF files = <<>> THEN <<>>
    ELSE IF NotATool(files[1]) \/ d[files[1]] = "bad"
         THEN ScanSorted(Tail(files), d)
         ELSE <<[name |-> Slice(files[1], 0, Len(files[1]) - 3)]>> \o ScanSorted(Tail(files), d)

\* scan_tools
ScanTools(listing, d) == ScanSorted(SortedList(listing), d)

\* [t["name"] for t in tools]
NamesOf(ts) == [i \in 1..Len(ts) |-> ts[i].name]

InList(x, s) == \E i \in 1..Len(s) : s[i] = x

\* lines 194-195 without the membership test
UpdateManifest_AlwaysAppend(m, name) == [m EXCEPT !.tools = Append(@, name)]

\* update_manifest, lines 194-195
UpdateManifest(m, name) ==
    IF ~InList(name, m.tools) THEN [m EXCEPT !.tools = Append(@, name)] ELSE m

\* line 153 registering each scanned name the way update_manifest does
RECURSIVE AppendAllAbsent(_, _)
AppendAllAbsent(m, names) ==
    IF names = <<>> THEN m ELSE AppendAllAbsent(UpdateManifest(m, names[1]), Tail(names))

UpdateManifestTools_Accumulate(m, ts) == AppendAllAbsent(m, NamesOf(ts))

\* update_manifest_tools, line 153
UpdateManifestTools(m, ts) == [m EXCEPT !.tools = NamesOf(ts)]

\* skill_compiler.validate_skill_dir passes
ValidCompilerDir(p) == p.dir /\ p.manifest_json /\ p.skill_md_file /\ p.tools_subdir

\* line 170 with the test dropped
NoTools_Never(ts) == FALSE

\* line 170: `if not tools`
NoTools(ts) == ts = <<>>

SCHEMA_START == <<"---SCHEMA_START---">>

SCHEMA_END == <<"---SCHEMA_END---">>

SchemaResults ==
    { <<"sorry">>,
      SCHEMA_START \o SCHEMA_END,
      SCHEMA_START \o <<"\n", "[]", "\n">> \o SCHEMA_END,
      SCHEMA_START \o <<"\n", "[{\"name\": \"a\"}]", "\n">> \o SCHEMA_END,
      SCHEMA_START \o <<"[{\"name\"">> \o SCHEMA_END }

\* between two runs
Idle == {"idle", "registered", "exit1", "raised", "done_no_tools", "done_no_schema", "compiled"}

\* scan_code.update_manifest(skill_dir, func_name), lines 189-198
UpdateManifestCall ==
    /\ pc \in Idle
    /\ pkg.dir /\ pkg.manifest_json
    /\ \E name \in ToolNames :
         /\ func_name' = name
         /\ manifest' = UpdateManifest(manifest, name)
    /\ loaded' = manifest
    /\ pc' = "registered"
    /\ UNCHANGED <<edits, pkg, create_args, refactored, done, functions, answer, analysis, file_path, parsed, parse_args, skill_md, tools_dir, schema_file, calls, messages,
                   assistant_text, user_input, terminated, result_text, tools,
                   skill_doc, content>>

\* skill_compiler.main, lines 164-168: validate, read SKILL.md, scan tools/
CompilerMain ==
    /\ pc \in Idle
    /\ calls.schema < MaxCompiles
    /\ IF ValidCompilerDir(pkg)
       THEN /\ \E listing \in Listings(tools_dir) : tools' = ScanTools(listing, tools_dir)
            /\ pc' = "scanned"
       ELSE pc' = "exit1" /\ UNCHANGED tools
    /\ UNCHANGED <<edits, pkg, create_args, refactored, done, functions, answer, analysis, file_path, parsed, parse_args, manifest, skill_md, tools_dir, schema_file, calls, messages,
                   assistant_text, user_input, terminated, result_text,
                   func_name, skill_doc, content, loaded>>

\* lines 170-172
CompilerGate ==
    /\ pc = "scanned"
    /\ pc' = IF NoTools(tools) THEN "done_no_tools" ELSE "schema_call"
    /\ UNCHANGED <<edits, pkg, create_args, refactored, done, functions, answer, analysis, file_path, parsed, parse_args, manifest, skill_md, tools_dir, schema_file, calls, messages,
                   assistant_text, user_input, terminated, result_text, tools,
                   func_name, skill_doc, content, loaded>>

\* generate_tool_schema, lines 120-132: the service call
CompilerSchemaCall ==
    /\ pc = "schema_call"
    /\ \E r \in SchemaResults : result_text' = r
    /\ calls' = [calls EXCEPT !.schema = @ + 1]
    /\ pc' = "schema_decode"
    /\ UNCHANGED <<edits, pkg, create_args, refactored, done, functions, answer, analysis, file_path, parsed, parse_args, manifest, skill_md, tools_dir, schema_file, messages,
                   assistant_text, user_input, terminated, tools,
                   func_name, skill_doc, content, loaded>>

\* the schema main gets from generate_tool_schema (lines 133-137)
SchemaOf(text) ==
    LET json_str == ParseBetween(text, SCHEMA_START, SCHEMA_END)
    IN IF ~Truthy(json_str) THEN JsonArray(<<>>) ELSE JsonLoads(Strip(json_str.text))

\* lines 133-137 and main 180-185: decode; an empty schema ends the run, a
\* decode error raises, else the schema file is written
CompilerDecode ==
    /\ pc = "schema_decode"
    /\ LET schema == SchemaOf(result_text)
       IN IF ~schema.ok
          THEN pc' = "raised" /\ UNCHANGED schema_file
          ELSE IF schema.items = <<>>
          THEN pc' = "done_no_schema" /\ UNCHANGED schema_file
          ELSE pc' = "update_tools" /\ schema_file' = <<schema.items>>
    /\ UNCHANGED <<edits, pkg, create_args, refactored, done, functions, answer, analysis, file_path, parsed, parse_args, manifest, skill_md, tools_dir, calls, messages,
                   assistant_text, user_input, terminated, result_text, tools,
                   func_name, skill_doc, content, loaded>>

\* update_manifest_tools, lines 148-156
CompilerUpdate ==
    /\ pc = "update_tools"
    /\ loaded' = manifest
    /\ manifest' = UpdateManifestTools(manifest, tools)
    /\ pc' = "compiled"
    /\ UNCHANGED <<edits, pkg, create_args, refactored, done, functions, answer, analysis, file_path, parsed, parse_args, skill_md, tools_dir, schema_file, calls, messages,
                   assistant_text, user_input, terminated, result_text, tools,
                   func_name, skill_doc, content>>

NoDup(s) == \A i, j \in 1..Len(s) : i # j => s[i] # s[j]

\* the sequences over S of length at most n without duplicates
RECURSIVE NoDupSeqs(_, _)
NoDupSeqs(S, n) ==
    IF n = 0 THEN {<<>>}
    ELSE LET shorter == NoDupSeqs(S, n - 1)
         IN shorter \cup { t \in { Append(s, x) : s \in shorter, x \in S } : NoDup(t) }

InitCompiler ==
    /\ pc = "idle"
    /\ pkg \in PkgStates
    /\ manifest \in { ManifestOf("risk-eval", "d0", <<"t0">>, ts) :
                        ts \in NoDupSeqs(ToolNames, MaxInitTools) }
    /\ skill_md = <<"doc0", "\n">>
    /\ tools_dir \in IF pkg.tools_subdir THEN DirStates ELSE {NoFiles}
    /\ schema_file = <<>>
    /\ calls = NoCalls
    /\ messages = <<>>
    /\ assistant_text = <<>>
    /\ user_input = <<>>
    /\ terminated = "no"
    /\ result_text = <<>>
    /\ tools = <<>>
    /\ func_name = <<>>
    /\ skill_doc = <<>>
    /\ content = <<>>
    /\ loaded = ManifestOf("", "", <<>>, <<>>)
    /\ edits = 0
    /\ create_args = NoCreate
    /\ refactored = NoRefactor
    /\ done = 0
    /\ functions = <<>>
    /\ answer = None
    /\ analysis = NoAnalysis
    /\ file_path = NoFile
    /\ parsed = None
    /\ parse_args = NoArgs

NextCompiler ==
    \/ UpdateManifestCall
    \/ CompilerMain
    \/ CompilerGate
    \/ CompilerSchemaCall
    \/ CompilerDecode
    \/ CompilerUpdate

SpecCompiler == InitCompiler /\ [][NextCompiler]_vars

-----------------------------------------------------------------------------
(* Claims about the tools list, checked under SpecCompiler *)

Occurrences(x, s) == Cardinality({i \in 1..Len(s) : s[i] = x})

IsPrefix(a, b) == Len(a) <= Len(b) /\ SubSeq(b, 1, Len(a)) = a

\* C6: after update_manifest(T) on a duplicate-free tools list, T occurs in
\* the list exactly once, the entries read from the manifest are all kept in
\* place (the list read is a prefix of the list written), and a T that was
\* already listed leaves the list as it was.
C6_AppendIfAbsentIdempotent ==
    pc = "registered" =>
        /\ Occurrences(func_name, manifest.tools) = 1
        /\ IsPrefix(loaded.tools, manifest.tools)
        /\ NoDup(manifest.tools)
        /\ (InList(func_name, loaded.tools) => manifest.tools = loaded.tools)
        /\ (~InList(func_name, loaded.tools) => manifest.tools = Append(loaded.tools, func_name))

C6_Witness ==
    /\ pc = "registered"
    /\ InList(func_name, loaded.tools)
    /\ Len(manifest.tools) >= 2
    /\ manifest.tools[1] = func_name

\* the tool modules a scan must return: parseable .py files other than __init__.py
Scannable(d) ==
    {f \in FileUniverse : d[f] = "ok" /\ EndsWith(f, <<".", "p", "y">>) /\ f # INIT_PY}

\* the file a scan record stands for
FileOf(t) == t.name \o <<".", "p", "y">>

\* C16: the scan returns exactly one record per .py file other than
\* __init__.py that parses, named after the file without its extension, in
\* lexicographic order of file name; a file that does not parse is left out
\* and the files before and after it are still returned.
C16_StaticScanResult ==
    pc = "scanned" =>
        /\ {FileOf(tools[i]) : i \in 1..Len(tools)} = Scannable(tools_dir)
        /\ Len(tools) = Cardinality(Scannable(tools_dir))
        /\ \A i, j \in 1..Len(tools) : i < j => LexLess(FileOf(tools[i]), FileOf(tools[j]))

C16_Witness ==
    /\ pc = "scanned"
    /\ tools_dir[INIT_PY] = "ok"
    /\ tools_dir[A_PY] = "ok"
    /\ tools_dir[B_PY] = "bad"
    /\ tools_dir[C_PY] = "ok"
    /\ tools = <<[name |-> <<"a">>], [name |-> <<"c">>]>>

\* C7: after a compilation run that reached the manifest update, the tools
\* list is exactly the names of this run's scan: one entry per scannable
\* file, no duplicates, in lexicographic order of file name, whatever the
\* list held before.
C7_FullResync ==
    pc = "compiled" =>
        /\ manifest.tools = NamesOf(tools)
        /\ NoDup(manifest.tools)
        /\ {manifest.tools[i] \o <<".", "p", "y">> : i \in 1..Len(manifest.tools)}
              = Scannable(tools_dir)
        /\ \A i, j \in 1..Len(manifest.tools) :
              i < j => LexLess(manifest.tools[i] \o <<".", "p", "y">>,
                               manifest.tools[j] \o <<".", "p", "y">>)

C7_Witness ==
    /\ pc = "compiled"
    /\ Len(manifest.tools) = 2
    /\ \E i \in 1..Len(loaded.tools) : ~InList(loaded.tools[i], manifest.tools)
    /\ loaded.tools[1] = <<"b">>

\* C8: when the scan returned no tool, the compiler returns at once: no
\* service call is made, the schema file is not written, and the manifest
\* (stale tools list included) is left as it is.
C8_EmptyScanSkips ==
    [][(pc = "scanned" /\ tools = <<>>) =>
          /\ pc' = "done_no_tools"
          /\ calls' = calls
          /\ schema_file' = schema_file
          /\ manifest' = manifest]_vars

C8_Witness ==
    /\ pc = "done_no_tools"
    /\ manifest.tools # <<>>
    /\ tools_dir[INIT_PY] = "ok"
    /\ tools_dir[A_PY] = "bad"
    /\ calls.schema = 0
    /\ schema_file = <<>>

-----------------------------------------------------------------------------
(* scan_code.update_skill_md: the section editor.  A document is a sequence *)
(* of characters; "K" stands for the heading text of the capabilities       *)
(* section, "R" and "Z" for other heading texts.                            *)

\* marker = "## <capabilities>"
MARKER == <<"#", "#", " ", "K">>

\* "\n## "
NEXT_SECTION == <<"\n", "#", "#", " ">>

\* lines 174-182 with the search for the next heading started at 0
UpdateSkillMd_NextFromStart(c, d) ==
    LET idx == Find(c, MARKER, 0)
        next_section == Find(c, NEXT_SECTION, 0)
        insert_pos == IF next_section # -1 THEN next_section ELSE Len(c)
    IN IF idx = -1
       THEN c \o <<"\n">> \o MARKER \o <<"\n">> \o d \o <<"\n">>
       ELSE RStrip(Slice(c, 0, insert_pos)) \o <<"\n">> \o d \o <<"\n", "\n">>
              \o Slice(c, insert_pos, Len(c))

\* lines 174-182 without the rstrip()
UpdateSkillMd_NoRStrip(c, d) ==
    LET idx == Find(c, MARKER, 0)
        next_section == Find(c, NEXT_SECTION, idx + Len(MARKER))
        insert_pos == IF next_section # -1 THEN next_section ELSE Len(c)
    IN IF idx = -1
       THEN c \o <<"\n">> \o MARKER \o <<"\n">> \o d \o <<"\n">>
       ELSE Slice(c, 0, insert_pos) \o <<"\n">> \o d \o <<"\n", "\n">>
              \o Slice(c, insert_pos, Len(c))

\* lines 174-182: the new content of SKILL.md
UpdateSkillMd(c, d) ==
    LET idx == Find(c, MARKER, 0)
        next_section == Find(c, NEXT_SECTION, idx + Len(MARKER))
        insert_pos == IF next_section # -1 THEN next_section ELSE Len(c)
    IN IF idx = -1
       THEN c \o <<"\n">> \o MARKER \o <<"\n">> \o d \o <<"\n">>
       ELSE RStrip(Slice(c, 0, insert_pos)) \o <<"\n">> \o d \o <<"\n", "\n">>
              \o Slice(c, insert_pos, Len(c))

\* the pieces documents are put together from
DocChunks ==
    { <<"x">>, <<"\n">>, <<" ", "\n", "\n">>, <<"#">>, MARKER, NEXT_SECTION \o <<"R">> }

RECURSIVE DocsUpTo(_)
DocsUpTo(n) ==
    IF n = 0 THEN {<<>>}
    ELSE LET shorter == DocsUpTo(n - 1)
         IN shorter \cup { doc \o chunk : doc \in shorter, chunk \in DocChunks }

\* the call descriptions the editor is given
SkillDocs ==
    { <<>>, <<"y">>, <<"y">> \o NEXT_SECTION \o <<"Z">> }

\* update_skill_md(skill_dir, skill_doc), lines 168-186
UpdateSkillMdCall ==
    /\ pc \in {"idle", "edited"}
    /\ edits < MaxEdits
    /\ pkg.dir /\ pkg.skill_md_file
    /\ \E d \in SkillDocs :
         /\ skill_doc' = d
         /\ skill_md' = UpdateSkillMd(skill_md, d)
    /\ content' = skill_md
    /\ edits' = edits + 1
    /\ pc' = "edited"
    /\ UNCHANGED <<pkg, create_args, refactored, done, functions, answer, analysis, file_path, parsed, parse_args, manifest, tools_dir, schema_file, calls, messages,
                   assistant_text, user_input, terminated, result_text, tools,
                   func_name, loaded>>

InitEditor ==
    /\ pc = "idle"
    /\ pkg = ValidPkg
    /\ manifest = ManifestOf("risk-eval", "", <<>>, <<>>)
    /\ skill_md \in DocsUpTo(MaxDocChunks)
    /\ tools_dir = NoFiles
    /\ schema_file = <<>>
    /\ calls = NoCalls
    /\ messages = <<>>
    /\ assistant_text = <<>>
    /\ user_input = <<>>
    /\ terminated = "no"
    /\ result_text = <<>>
    /\ tools = <<>>
    /\ func_name = <<>>
    /\ skill_doc = <<>>
    /\ content = <<>>
    /\ loaded = ManifestOf("", "", <<>>, <<>>)
    /\ edits = 0
    /\ create_args = NoCreate
    /\ refactored = NoRefactor
    /\ done = 0
    /\ functions = <<>>
    /\ answer = None
    /\ analysis = NoAnalysis
    /\ file_path = NoFile
    /\ parsed = None
    /\ parse_args = NoArgs

NextEditor == UpdateSkillMdCall

SpecEditor == InitEditor /\ [][NextEditor]_vars

-----------------------------------------------------------------------------
(* Claims about the section editor, checked under SpecEditor *)

OccursAt(t, sub, i) == i >= 0 /\ i + Len(sub) <= Len(t) /\ SubSeq(t, i + 1, i + Len(sub)) = sub

\* the heading is in the document the editor read
HasHeading == \E i \in 0..Len(content) : OccursAt(content, MARKER, i)

\* where the heading text ends: just past its first occurrence
HeadingEnd ==
    Len(MARKER) + CHOOSE i \in 0..Len(content) :
        /\ OccursAt(content, MARKER, i)
        /\ \A k \in 0..(i - 1) : ~OccursAt(content, MARKER, k)

\* where the next "## " heading after the target heading starts, else the end
SectionEnd ==
    IF \E j \in HeadingEnd..Len(content) : OccursAt(content, NEXT_SECTION, j)
    THEN CHOOSE j \in HeadingEnd..Len(content) :
            /\ OccursAt(content, NEXT_SECTION, j)
            /\ \A k \in HeadingEnd..(j - 1) : ~OccursAt(content, NEXT_SECTION, k)
    ELSE Len(content)

\* C9: an edit changes nothing outside the target section: with the heading
\* present, the document up to the end of the heading's first occurrence and
\* the document from the next "## " heading on are kept byte for byte, one
\* after the other; with the heading absent the old document is kept whole
\* and a block is appended to it.
C9_BytesOutsideSectionKept ==
    pc = "edited" =>
        IF HasHeading
        THEN /\ Len(skill_md) >= HeadingEnd + (Len(content) - SectionEnd)
             /\ SubSeq(skill_md, 1, HeadingEnd) = SubSeq(content, 1, HeadingEnd)
             /\ SubSeq(skill_md, Len(skill_md) - (Len(content) - SectionEnd) + 1, Len(skill_md))
                   = SubSeq(content, SectionEnd + 1, Len(content))
        ELSE /\ IsPrefix(content, skill_md)
             /\ Len(skill_md) > Len(content)

C9_Witness ==
    /\ pc = "edited"
    /\ HasHeading
    /\ HeadingEnd > Len(MARKER)
    /\ SectionEnd < Len(content)
    /\ skill_doc # <<>>
    /\ skill_md # content

\* the whitespace characters that end the text before the insertion point
TrailingBlanks ==
    CHOOSE w \in 0..SectionEnd :
        /\ \A i \in (SectionEnd - w + 1)..SectionEnd : content[i] \in Whitespace
        /\ (w < SectionEnd => content[SectionEnd - w] \notin Whitespace)

\* C10 as stated: with the heading present and non-empty new content, the
\* document after the edit is strictly longer than the document before it.
C10_StrictlyLonger ==
    (pc = "edited" /\ HasHeading /\ skill_doc # <<>>) => Len(skill_md) > Len(content)

\* C10 amended: with the heading present, the document after the edit is as
\* long as the document before it, less the whitespace that ended the text
\* before the insertion point, plus the new content and three line breaks;
\* so it is strictly longer whenever that whitespace is shorter than the new
\* content plus three.
C10_LongerUpToTrailingBlanks ==
    (pc = "edited" /\ HasHeading) =>
        /\ Len(skill_md) = Len(content) - TrailingBlanks + Len(skill_doc) + 3
        /\ (TrailingBlanks < Len(skill_doc) + 3 => Len(skill_md) > Len(content))

C10_Witness ==
    /\ pc = "edited"
    /\ HasHeading
    /\ skill_doc = <<"y">>
    /\ TrailingBlanks = 3
    /\ SectionEnd < Len(content)
    /\ Len(skill_md) = Len(content) + 1


\* the text of the target section before the edit, up to its last character
\* that is not whitespace
PriorContent == SubSeq(content, 1, SectionEnd - TrailingBlanks)

\* the document from the next "## " heading on (empty when there is none)
FromNextHeading == SubSeq(content, SectionEnd + 1, Len(content))

Newlines(k) == [i \in 1..k |-> "\n"]

\* C20: with the heading present, the new content is put before the next
\* "## " heading (at the end when there is none), and exactly one blank line
\* lies between the section's prior content and the new content.
C20_OneBlankLineBeforeNewContent ==
    (pc = "edited" /\ HasHeading /\ skill_doc # <<>>) =>
        \E k \in 0..3 :
            skill_md = PriorContent \o <<"\n", "\n">> \o skill_doc \o Newlines(k)
                         \o FromNextHeading

\* what the edit does write: the new content on the line after the prior
\* content, and two line ends before the next heading
NewContentOnNextLine ==
    (pc = "edited" /\ HasHeading) =>
        skill_md = PriorContent \o <<"\n">> \o skill_doc \o <<"\n", "\n">> \o FromNextHeading

MarkerCount(t) == Cardinality({i \in 0..Len(t) : OccursAt(t, MARKER, i)})

\* the step is the second of two calls with identical content, the first of
\* them on a document without the heading
SecondIdenticalCall ==
    /\ edits = 1 /\ edits' = 2
    /\ ~HasHeading
    /\ skill_doc' = skill_doc

\* C11 as stated: on a document without the heading, the second of two
\* identical calls leaves the document as the first call made it.
C11_AppendBranchIdempotent ==
    [][SecondIdenticalCall => skill_md' = skill_md]_vars

\* what the second identical call does instead: it finds the heading the
\* first call appended and accumulates, so the document grows again, keeps
\* the old document and the heading as its beginning, and gets no second
\* heading.
SecondCallAccumulates ==
    [][SecondIdenticalCall =>
          /\ Len(skill_md') > Len(skill_md)
          /\ IsPrefix(content \o <<"\n">> \o MARKER, skill_md')
          /\ MarkerCount(skill_md') = MarkerCount(skill_md) + MarkerCount(skill_doc)
          /\ MarkerCount(skill_md) = 1 + MarkerCount(skill_doc)]_vars

-----------------------------------------------------------------------------
(* More claims about generate_documents, checked under SpecInterviewer *)

LacksMdMarker ==
    ~Contains(result_text, SKILL_MD_START) \/ ~Contains(result_text, SKILL_MD_END)

LacksManifestMarker ==
    ~Contains(result_text, MANIFEST_JSON_START) \/ ~Contains(result_text, MANIFEST_JSON_END)

\* C13: a response without a marker of the manifest block leaves manifest.json
\* as it was, one without a marker of the document block leaves SKILL.md as
\* it was, neither ends the run with an error, and the block that is there
\* is still applied.
C13_AbsentBlockLeavesStateUnchanged ==
    [][/\ (pc = "write_md" /\ pc' # "write_md" /\ LacksMdMarker)
            => skill_md' = skill_md /\ pc' = "merge"
       /\ (pc = "merge" /\ pc' # "merge" /\ LacksManifestMarker)
            => manifest' = manifest /\ pc' = "done"
       /\ (pc = "write_md" /\ pc' # "write_md" /\ LacksManifestMarker
             /\ Contains(result_text, <<"doc1">> \o <<"\n">> \o SKILL_MD_END))
            => skill_md' = <<"doc1", "\n">>
       /\ (pc = "merge" /\ pc' # "merge" /\ LacksMdMarker
             /\ Contains(result_text, <<"{\"description\": \"d1\"}", "\n">> \o MANIFEST_JSON_END))
            => manifest' = [manifest EXCEPT !.description = "d1"] /\ pc' = "done"
      ]_vars

C13_Witness ==
    /\ pc = "done"
    /\ Contains(result_text, MANIFEST_JSON_START)
    /\ ~Contains(result_text, MANIFEST_JSON_END)
    /\ skill_md = <<"doc1", "\n">>
    /\ manifest \in InitialManifests

\* the response carries a manifest block whose payload json.loads rejects
InvalidManifestPayload ==
    LET manifest_str == ParseBetween(result_text, MANIFEST_JSON_START, MANIFEST_JSON_END)
    IN Truthy(manifest_str) /\ ~JsonLoads(Strip(manifest_str.text)).ok

-----------------------------------------------------------------------------
(* parse_between on its own: every text over a small alphabet, markers of one
   and two characters that can precede and overlap one another *)

MaxTextLen == 4

CodecAlphabet == {"a", "b", "x"}

TextsUpTo(n) == UNION {[1..k -> CodecAlphabet] : k \in 0..n}

StartMarkers == {<<"a">>, <<"a", "b">>}

EndMarkers == {<<"b">>, <<"b", "a">>}

\* parse_between(text, start_marker, end_marker), lines 136-142
ParseBetweenCall ==
    /\ pc = "idle"
    /\ parsed' = ParseBetween(parse_args.text, parse_args.start_marker,
                              parse_args.end_marker)
    /\ pc' = "parsed"
    /\ UNCHANGED <<edits, pkg, create_args, refactored, done, functions, answer, analysis, file_path, parse_args, manifest, skill_md, tools_dir, schema_file,
                   calls, messages, assistant_text, user_input, terminated,
                   result_text, tools, func_name, skill_doc, content, loaded>>

InitCodec ==
    /\ pc = "idle"
    /\ pkg = ValidPkg
    /\ manifest = ManifestOf("risk-eval", "", <<>>, <<>>)
    /\ skill_md = <<>>
    /\ tools_dir = NoFiles
    /\ schema_file = <<>>
    /\ calls = NoCalls
    /\ messages = <<>>
    /\ assistant_text = <<>>
    /\ user_input = <<>>
    /\ terminated = "no"
    /\ result_text = <<>>
    /\ tools = <<>>
    /\ func_name = <<>>
    /\ skill_doc = <<>>
    /\ content = <<>>
    /\ loaded = ManifestOf("", "", <<>>, <<>>)
    /\ edits = 0
    /\ create_args = NoCreate
    /\ refactored = NoRefactor
    /\ done = 0
    /\ functions = <<>>
    /\ answer = None
    /\ analysis = NoAnalysis
    /\ file_path = NoFile
    /\ parsed = None
    /\ parse_args \in [text : TextsUpTo(MaxTextLen),
                       start_marker : StartMarkers,
                       end_marker : EndMarkers]

NextCodec == ParseBetweenCall

SpecCodec == InitCodec /\ [][NextCodec]_vars

-----------------------------------------------------------------------------
(* Claims about parse_between, checked under SpecCodec *)

Occurs(t, sub) == \E i \in 0..Len(t) : OccursAt(t, sub, i)

\* 0-based index of the first occurrence of sub in t, which has one
FirstAt(t, sub) ==
    CHOOSE i \in 0..Len(t) :
        OccursAt(t, sub, i) /\ \A k \in 0..(i - 1) : ~OccursAt(t, sub, k)

\* C12: parse_between returns None exactly when a marker does not occur in
\* the text; otherwise it returns the text between the end of the first start
\* marker and the beginning of the first end marker, and the start marker,
\* the value returned and the end marker, put together, occur in the text.
C12_MarkerCodecResult ==
    pc = "parsed" =>
        LET t  == parse_args.text
            sm == parse_args.start_marker
            em == parse_args.end_marker
        IN /\ parsed.none <=> (~Occurs(t, sm) \/ ~Occurs(t, em))
           /\ ~parsed.none =>
                 /\ parsed.text = SubSeq(t, FirstAt(t, sm) + Len(sm) + 1, FirstAt(t, em))
                 /\ Occurs(t, sm \o parsed.text \o em)

-----------------------------------------------------------------------------
(* scan_code.py: main *)

M_PY == <<"m", ".", "p", "y">>

M_TXT == <<"m", ".", "t", "x", "t">>

\* --file: a Python file, a path that is no file, a file that is no Python file
FilePaths ==
    { [name |-> M_PY, isfile |-> TRUE],
      [name |-> M_PY, isfile |-> FALSE],
      [name |-> M_TXT, isfile |-> TRUE] }

\* validate_inputs without the test of line 86
ValidInputs_NoFileCheck(f, p) ==
    /\ EndsWith(f.name, <<".", "p", "y">>)
    /\ p.dir
    /\ p.manifest_json /\ p.skill_md_file

\* validate_inputs, lines 84-98: TRUE when no sys.exit(1) is reached
ValidInputs(f, p) ==
    /\ f.isfile
    /\ EndsWith(f.name, <<".", "p", "y">>)
    /\ p.dir
    /\ p.manifest_json /\ p.skill_md_file

ANALYSIS_START == <<"---ANALYSIS_START---">>

ANALYSIS_END == <<"---ANALYSIS_END---">>

\* one element of analysis["functions"]
Func(n) == [name |-> n]

AnalysisObject(keys, found, fs) ==
    [ok |-> TRUE, keys |-> keys, found |-> found, functions |-> fs]

AnalysisError == [ok |-> FALSE, keys |-> {}, found |-> FALSE, functions |-> <<>>]

\* payloads of the analysis block, each one symbol
AnalysisTexts ==
    { "{\"found\": true, \"functions\": [a]}",
      "{\"found\": true, \"functions\": [a, b]}",
      "{\"found\": true, \"functions\": [b, a]}",
      "{\"found\": true, \"functions\": []}",
      "{\"found\": false, \"functions\": [a]}",
      "{\"found\": false, \"functions\": []}",
      "{}",
      "{\"found\": tru" }

\* json.loads on the payloads above
AnalysisDecode(j) ==
    CASE j = "{\"found\": true, \"functions\": [a]}" ->
             AnalysisObject({"found", "functions"}, TRUE, <<Func(<<"a">>)>>)
      [] j = "{\"found\": true, \"functions\": [a, b]}" ->
             AnalysisObject({"found", "functions"}, TRUE, <<Func(<<"a">>), Func(<<"b">>)>>)
      [] j = "{\"found\": true, \"functions\": [b, a]}" ->
             AnalysisObject({"found", "functions"}, TRUE, <<Func(<<"b">>), Func(<<"a">>)>>)
      [] j = "{\"found\": true, \"functions\": []}" ->
             AnalysisObject({"found", "functions"}, TRUE, <<>>)
      [] j = "{\"found\": false, \"functions\": [a]}" ->
             AnalysisObject({"found", "functions"}, FALSE, <<Func(<<"a">>)>>)
      [] j = "{\"found\": false, \"functions\": []}" ->
             AnalysisObject({"found", "functions"}, FALSE, <<>>)
      [] j = "{}" -> AnalysisObject({}, FALSE, <<>>)
      [] OTHER -> AnalysisError

\* json.loads(s): s must be exactly one JSON text
AnalysisLoads(s) == IF Len(s) = 1 THEN AnalysisDecode(s[1]) ELSE AnalysisError

\* what the service may answer to the analysis request
AnalysisResults ==
    { <<>>, ANALYSIS_START \o ANALYSIS_END, ANALYSIS_START \o <<"{}">> }
    \cup { ANALYSIS_START \o <<"\n", j, "\n">> \o ANALYSIS_END : j \in AnalysisTexts }

\* what the human may type at the confirmation prompt (before .strip().lower())
Answers ==
    { <<"y">>, <<" ", "Y", "\n">>, <<"n">>, <<>>, <<"y", "e", "s">> }

TOOL_CODE_START == <<"---TOOL_CODE_START---">>

TOOL_CODE_END == <<"---TOOL_CODE_END---">>

SKILL_DOC_START == <<"---SKILL_DOC_START---">>

SKILL_DOC_END == <<"---SKILL_DOC_END---">>

\* the tool-code block of a refactor response
ToolCodeParts ==
    { <<>>,
      TOOL_CODE_START \o <<"\n", "code1", "\n">> \o TOOL_CODE_END,
      TOOL_CODE_START \o <<" ">> \o TOOL_CODE_END,
      TOOL_CODE_START \o <<"code1">> }

\* the document block of a refactor response
SkillDocParts ==
    { <<>>,
      SKILL_DOC_START \o <<"\n", "y", "\n">> \o SKILL_DOC_END }

\* what the service may answer to a refactor request
RefactorResults == { t \o <<"\n">> \o d : t \in ToolCodeParts, d \in SkillDocParts }

\* line 119: nothing to offer to the human
NothingFound(an) == ~an.found \/ an.functions = <<>>

\* line 130 accepting every answer but "n"
IsAffirmative_NotNo(a) == Lower(Strip(a)) # <<"n">>

\* line 130: answer == "y" after .strip().lower()
IsAffirmative(a) == Lower(Strip(a)) = <<"y">>

\* the for loop left after its first candidate
AfterCandidate_OnlyFirst(n) == "finished"

\* the for loop of lines 229-240 after one more candidate: next one, or the end
AfterCandidate(n) == IF n = Len(functions) THEN "finished" ELSE "refactor"

\* lines 237-240 with update_manifest moved before write_tool_file
AfterToolCode_RegisterFirst == "update_manifest"

\* line 237: a candidate with tool code gets its tool file first
AfterToolCode == "write_tool"

\* the candidate the for loop is at
CurrentFunc == functions[done + 1]

\* tools/<func_name>.py
ToolFile(n) == n \o <<".", "p", "y">>

\* main, lines 201-220: validation, reading the input file and the skill name
ScannerMain ==
    /\ pc = "idle"
    /\ pc' = IF ValidInputs(file_path, pkg) THEN "analyze" ELSE "exit1"
    /\ UNCHANGED <<pkg, create_args, manifest, skill_md, tools_dir, schema_file, calls,
                   messages, assistant_text, user_input, terminated,
                   result_text, tools, func_name, skill_doc, content, loaded,
                   edits, parse_args, parsed, file_path, analysis, answer,
                   functions, done, refactored>>

\* analyze_code, lines 103-108: the analysis call
ScannerAnalyzeCall ==
    /\ pc = "analyze"
    /\ \E r \in AnalysisResults : result_text' = r
    /\ calls' = [calls EXCEPT !.analysis = @ + 1]
    /\ pc' = "analysis_decode"
    /\ UNCHANGED <<pkg, create_args, manifest, skill_md, tools_dir, schema_file, messages,
                   assistant_text, user_input, terminated, tools, func_name,
                   skill_doc, content, loaded, edits, parse_args, parsed,
                   file_path, analysis, answer, functions, done, refactored>>

\* analyze_code, lines 109-114: a missing or empty block gives the empty
\* analysis, a payload json.loads rejects leaves the run with an exception
ScannerAnalyzeDecode ==
    /\ pc = "analysis_decode"
    /\ LET json_str == ParseBetween(result_text, ANALYSIS_START, ANALYSIS_END)
           decoded == AnalysisLoads(Strip(json_str.text))
       IN IF ~Truthy(json_str)
          THEN /\ analysis' = [keys |-> {"found", "functions"}, found |-> FALSE,
                               functions |-> <<>>]
               /\ pc' = "confirm"
          ELSE IF decoded.ok
               THEN /\ analysis' = [keys |-> decoded.keys, found |-> decoded.found,
                                    functions |-> decoded.functions]
                    /\ pc' = "confirm"
               ELSE pc' = "raised" /\ UNCHANGED analysis
    /\ UNCHANGED <<pkg, create_args, manifest, skill_md, tools_dir, schema_file, calls,
                   messages, assistant_text, user_input, terminated,
                   result_text, tools, func_name, skill_doc, content, loaded,
                   edits, parse_args, parsed, file_path, answer, functions,
                   done, refactored>>

\* prompt_user_confirmation, lines 117-133, and main, lines 225-227
ScannerConfirm ==
    /\ pc = "confirm"
    /\ IF ~({"found", "functions"} \subseteq analysis.keys)
       THEN pc' = "raised" /\ UNCHANGED <<answer, functions>>
       ELSE IF NothingFound(analysis)
            THEN pc' = "returned" /\ functions' = <<>> /\ UNCHANGED answer
            ELSE \E a \in Answers :
                    /\ answer' = Some(a)
                    /\ IF IsAffirmative(a)
                       THEN functions' = analysis.functions /\ pc' = "refactor"
                       ELSE functions' = <<>> /\ pc' = "returned"
    /\ UNCHANGED <<pkg, create_args, manifest, skill_md, tools_dir, schema_file, calls,
                   messages, assistant_text, user_input, terminated,
                   result_text, tools, func_name, skill_doc, content, loaded,
                   edits, parse_args, parsed, file_path, analysis, done,
                   refactored>>

\* refactor_to_tool, lines 138-151: the refactor call for the next candidate
ScannerRefactorCall ==
    /\ pc = "refactor"
    /\ \E r \in RefactorResults : result_text' = r
    /\ calls' = [calls EXCEPT !.refactor = @ + 1]
    /\ pc' = "refactor_decode"
    /\ UNCHANGED <<pkg, create_args, manifest, skill_md, tools_dir, schema_file, messages,
                   assistant_text, user_input, terminated, tools, func_name,
                   skill_doc, content, loaded, edits, parse_args, parsed,
                   file_path, analysis, answer, functions, done, refactored>>

\* refactor_to_tool, lines 152-155, and main, lines 233-235: no tool code,
\* the candidate is skipped
ScannerRefactorDecode ==
    /\ pc = "refactor_decode"
    /\ LET tool_code == ParseBetween(result_text, TOOL_CODE_START, TOOL_CODE_END)
           doc == ParseBetween(result_text, SKILL_DOC_START, SKILL_DOC_END)
           stripped_code == IF Truthy(tool_code) THEN Some(Strip(tool_code.text)) ELSE None
           stripped_doc == IF Truthy(doc) THEN Some(Strip(doc.text)) ELSE None
       IN /\ refactored' = [tool_code |-> stripped_code, skill_doc |-> stripped_doc]
          /\ IF ~Truthy(stripped_code)
             THEN done' = done + 1 /\ pc' = AfterCandidate(done + 1)
             ELSE pc' = AfterToolCode /\ UNCHANGED done
    /\ UNCHANGED <<pkg, create_args, manifest, skill_md, tools_dir, schema_file, calls,
                   messages, assistant_text, user_input, terminated,
                   result_text, tools, func_name, skill_doc, content, loaded,
                   edits, parse_args, parsed, file_path, analysis, answer,
                   functions>>

\* write_tool_file, lines 158-165, and main, line 238
ScannerWriteTool ==
    /\ pc = "write_tool"
    /\ pkg' = [pkg EXCEPT !.tools_subdir = TRUE]
    /\ tools_dir' = [tools_dir EXCEPT ![ToolFile(CurrentFunc.name)] = "ok"]
    /\ pc' = IF Truthy(refactored.skill_doc) THEN "update_skill_md" ELSE "update_manifest"
    /\ UNCHANGED <<create_args, manifest, skill_md, schema_file, calls, messages,
                   assistant_text, user_input, terminated, result_text,
                   tools, func_name, skill_doc, content, loaded, edits,
                   parse_args, parsed, file_path, analysis, answer,
                   functions, done, refactored>>

\* update_skill_md, lines 168-186, called from main, line 239
ScannerUpdateSkillMd ==
    /\ pc = "update_skill_md"
    /\ content' = skill_md
    /\ skill_doc' = refactored.skill_doc.text
    /\ skill_md' = UpdateSkillMd(skill_md, refactored.skill_doc.text)
    /\ edits' = edits + 1
    /\ pc' = "update_manifest"
    /\ UNCHANGED <<pkg, create_args, manifest, tools_dir, schema_file, calls, messages,
                   assistant_text, user_input, terminated, result_text,
                   tools, func_name, loaded, parse_args, parsed, file_path,
                   analysis, answer, functions, done, refactored>>

\* update_manifest, lines 189-198, called from main, line 240
ScannerUpdateManifest ==
    /\ pc = "update_manifest"
    /\ func_name' = CurrentFunc.name
    /\ loaded' = manifest
    /\ manifest' = UpdateManifest(manifest, CurrentFunc.name)
    /\ done' = done + 1
    /\ pc' = AfterCandidate(done + 1)
    /\ UNCHANGED <<pkg, create_args, skill_md, tools_dir, schema_file, calls, messages,
                   assistant_text, user_input, terminated, result_text,
                   tools, skill_doc, content, edits, parse_args, parsed,
                   file_path, analysis, answer, functions, refactored>>

InitScanner ==
    /\ pc = "idle"
    /\ pkg \in PkgStates
    /\ file_path \in FilePaths
    /\ manifest \in { ManifestOf("risk-eval", "", <<>>, ts) : ts \in {<<>>, << <<"a">> >>} }
    /\ skill_md \in { <<"x", "\n">>, MARKER \o <<"\n", "x", "\n">> \o NEXT_SECTION \o <<"R">> }
    /\ tools_dir \in { NoFiles, [NoFiles EXCEPT ![INIT_PY] = "ok", ![A_PY] = "ok"] }
    /\ schema_file = <<>>
    /\ calls = NoCalls
    /\ messages = <<>>
    /\ assistant_text = <<>>
    /\ user_input = <<>>
    /\ terminated = "no"
    /\ result_text = <<>>
    /\ tools = <<>>
    /\ func_name = <<>>
    /\ skill_doc = <<>>
    /\ content = <<>>
    /\ loaded = ManifestOf("", "", <<>>, <<>>)
    /\ edits = 0
    /\ create_args = NoCreate
    /\ parsed = None
    /\ parse_args = NoArgs
    /\ analysis = NoAnalysis
    /\ answer = None
    /\ functions = <<>>
    /\ done = 0
    /\ refactored = NoRefactor

NextScanner ==
    \/ ScannerMain
    \/ ScannerAnalyzeCall
    \/ ScannerAnalyzeDecode
    \/ ScannerConfirm
    \/ ScannerRefactorCall
    \/ ScannerRefactorDecode
    \/ ScannerWriteTool
    \/ ScannerUpdateSkillMd
    \/ ScannerUpdateManifest

SpecScanner == InitScanner /\ [][NextScanner]_vars

-----------------------------------------------------------------------------
(* Claims about scan_code.main, checked under SpecScanner *)

\* the human has answered the confirmation prompt with "y", up to case and
\* surrounding whitespace
SaidYes == ~answer.none /\ Lower(Strip(answer.text)) = <<"y">>

\* a step that calls the refactor service or writes to the package
RefactorEffect ==
    \/ calls'.refactor # calls.refactor
    \/ tools_dir' # tools_dir
    \/ pkg' # pkg
    \/ skill_md' # skill_md
    \/ manifest' # manifest

\* C14: a refactor call, a tool-file write, a document edit or a manifest
\* update happens only after the human answered "y" to the prompt that
\* follows the analysis; every other answer, the empty line included, ends
\* the run normally and changes nothing in the package.
C14_ConfirmationGate ==
    [][/\ RefactorEffect => (SaidYes /\ calls.analysis = 1 /\ pc # "confirm")
       /\ (pc = "confirm" /\ ~answer'.none /\ Lower(Strip(answer'.text)) # <<"y">>)
            => /\ pc' = "returned"
               /\ calls'.refactor = 0
               /\ UNCHANGED <<pkg, create_args, manifest, skill_md, tools_dir, schema_file>>
      ]_vars

C14_Witness ==
    /\ pc = "returned"
    /\ answer = Some(<<>>)
    /\ analysis.found /\ Len(analysis.functions) = 2
    /\ calls.refactor = 0

\* the package directory, its manifest or its document is missing
InvalidPackage == ~pkg.dir \/ ~pkg.manifest_json \/ ~pkg.skill_md_file

\* no service call of any kind and no write to the package in this step
NoCallNoWrite ==
    /\ calls' = calls
    /\ UNCHANGED <<pkg, create_args, manifest, skill_md, tools_dir, schema_file>>

\* C17: when the package directory, its manifest or its document is
\* missing, or the input file of the scanner is missing, the run exits at
\* validation: no step of it makes a service call or writes a package file.
C17_SetupErrorsFailFast ==
    [][(InvalidPackage \/ ~file_path.isfile) =>
          /\ NoCallNoWrite
          /\ pc = "idle" => pc' = "exit1"]_vars

C17_Witness ==
    /\ pc = "exit1"
    /\ ~file_path.isfile
    /\ ~InvalidPackage
    /\ calls = NoCalls

\* the same for the runs of the interviewer (under SpecInterviewer) and of
\* the schema compiler (under SpecCompiler), which take no input file; a
\* step to "registered" is a call of update_manifest, not a step of theirs
InvalidPackageFailsFast ==
    [][(InvalidPackage /\ pc' # "registered") => (NoCallNoWrite /\ pc' = "exit1")]_vars

\* the refactor response carries no tool-code block
LacksToolCode ==
    ~Contains(result_text, TOOL_CODE_START) \/ ~Contains(result_text, TOOL_CODE_END)

NonBlank(t) == SelectSeq(t, LAMBDA c : c \notin Whitespace)

\* C19: the batch handles its candidates one by one in list order (the
\* n-th refactor call, tool file and manifest entry are those of the n-th
\* candidate); a candidate without a tool-code block is skipped with no
\* file, document or manifest change and the loop goes on to the next one;
\* no tool file, manifest entry or document text of an earlier candidate is
\* ever taken back.
C19_PartialFailurePolicy ==
    [][/\ done' \in {done, done + 1}
       /\ (calls'.refactor # calls.refactor) => calls'.refactor = done + 1
       /\ (tools_dir' # tools_dir) =>
             tools_dir' = [tools_dir EXCEPT ![functions[done + 1].name \o <<".", "p", "y">>] = "ok"]
       /\ (manifest' # manifest) =>
             manifest' = [manifest EXCEPT !.tools = Append(@, functions[done + 1].name)]
       /\ (pc = "refactor_decode" /\ LacksToolCode) =>
             /\ done' = done + 1
             /\ UNCHANGED <<pkg, manifest, skill_md, tools_dir, schema_file>>
             /\ pc' = IF done + 1 < Len(functions) THEN "refactor" ELSE "finished"
       /\ \A f \in FileUniverse : tools_dir[f] # "absent" => tools_dir'[f] = tools_dir[f]
       /\ IsPrefix(manifest.tools, manifest'.tools)
       /\ IsSubseq(NonBlank(skill_md), NonBlank(skill_md'))
      ]_vars

C19_Witness ==
    /\ pc = "finished"
    /\ done = 2
    /\ functions = <<Func(<<"b">>), Func(<<"a">>)>>
    /\ tools_dir[B_PY] = "ok" /\ tools_dir[A_PY] = "absent"
    /\ manifest.tools = << <<"b">> >>
    /\ edits = 1
    /\ LacksToolCode

\* the tool file of the candidate the loop is at is on disk
CurrentFileWritten == tools_dir[functions[done + 1].name \o <<".", "p", "y">>] = "ok"

\* C22: the scanner appends a name to the manifest's tools list, and edits
\* the document for a candidate, only when that candidate's tool file is on
\* disk already, and no tool file is ever removed; so, a skipped candidate
\* or a run stopped between two steps included, every name the scanner has
\* added has its file (no initial manifest lists b, so b in the list was
\* added by the scanner).
C22_ToolFileBeforeManifestEntry ==
    [][/\ (manifest'.tools # manifest.tools) =>
             /\ CurrentFileWritten
             /\ manifest'.tools = Append(manifest.tools, functions[done + 1].name)
       /\ (skill_md' # skill_md) => CurrentFileWritten
       /\ \A f \in FileUniverse : tools_dir[f] = "ok" => tools_dir'[f] = "ok"
       /\ InList(<<"b">>, manifest'.tools) => tools_dir'[B_PY] = "ok"
      ]_vars

C22_Witness ==
    /\ pc = "finished"
    /\ functions = <<Func(<<"a">>), Func(<<"b">>)>>
    /\ tools_dir[A_PY] = "absent" /\ tools_dir[B_PY] = "ok"
    /\ manifest.tools = << <<"b">> >>
    /\ edits = 1
    /\ ~LacksToolCode

-----------------------------------------------------------------------------
(* skill_init.py: create_skill.  "A", "K", "D", "C", "O" stand for the texts *)
(* of the five headings of SKILL_MD_TEMPLATE, in the order of the template.  *)

Heading(h) == <<"#", "#", " ", h>>

\* SKILL_MD_TEMPLATE.format(name=name), lines 20-40
SkillMdTemplate(name) ==
    <<"#", " ", name, "\n", "\n">>
      \o Heading("A") \o <<"\n", "<!--role-->", "\n", "\n">>
      \o Heading("K") \o <<"\n", "<!--capabilities-->", "\n", "\n">>
      \o Heading("D") \o <<"\n", "<!--chain-->", "\n", "1", ".", "\n", "2", ".", "\n",
                           "3", ".", "\n", "\n">>
      \o Heading("C") \o <<"\n", "<!--limits-->", "\n", "-", "\n", "\n">>
      \o Heading("O") \o <<"\n", "<!--output-->", "\n">>

\* line 66: {**MANIFEST_TEMPLATE, "name": name, "author": author, "industry": industry}
CreateManifest(name, author, industry) ==
    [ManifestOf(name, "", <<>>, <<>>) EXCEPT !.author = author, !.industry = industry]

SkillNames == {"risk-eval", "kyc"}

Authors == {"anonymous", "li"}

Industries == {"finance", "health"}

\* create_skill(base_dir, name, author, industry), lines 54-93
CreateSkill ==
    /\ pc = "idle"
    /\ \E n \in SkillNames, a \in Authors, ind \in Industries :
         /\ create_args' = [name |-> n, author |-> a, industry |-> ind]
         /\ IF pkg.dir
            THEN /\ pc' = "exists"
                 /\ UNCHANGED <<pkg, manifest, skill_md, tools_dir>>
            ELSE /\ pkg' = ValidPkg
                 /\ manifest' = CreateManifest(n, a, ind)
                 /\ skill_md' = SkillMdTemplate(n)
                 /\ tools_dir' = [NoFiles EXCEPT ![INIT_PY] = "ok",
                                                 ![EXAMPLE_TOOL_PY] = "ok"]
                 /\ pc' = "created"
    /\ UNCHANGED <<schema_file, calls, messages, assistant_text, user_input,
                   terminated, result_text, tools, func_name, skill_doc,
                   content, loaded, edits, parse_args, parsed, file_path,
                   analysis, answer, functions, done, refactored>>

InitCreate ==
    /\ pc = "idle"
    /\ pkg \in PkgStates
    /\ manifest \in IF pkg.dir THEN InitialManifests ELSE {ManifestOf("", "", <<>>, <<>>)}
    /\ skill_md = <<>>
    /\ tools_dir = NoFiles
    /\ schema_file = <<>>
    /\ calls = NoCalls
    /\ messages = <<>>
    /\ assistant_text = <<>>
    /\ user_input = <<>>
    /\ terminated = "no"
    /\ result_text = <<>>
    /\ tools = <<>>
    /\ func_name = <<>>
    /\ skill_doc = <<>>
    /\ content = <<>>
    /\ loaded = ManifestOf("", "", <<>>, <<>>)
    /\ edits = 0
    /\ parsed = None
    /\ parse_args = NoArgs
    /\ file_path = NoFile
    /\ analysis = NoAnalysis
    /\ answer = None
    /\ functions = <<>>
    /\ done = 0
    /\ refactored = NoRefactor
    /\ create_args = NoCreate

NextCreate == CreateSkill

SpecCreate == InitCreate /\ [][NextCreate]_vars

-----------------------------------------------------------------------------
(* Claims about create_skill, checked under SpecCreate *)

HeadingPositions(h) == {i \in 0..Len(skill_md) : OccursAt(skill_md, Heading(h), i)}

HeadingAt(h) == CHOOSE i \in HeadingPositions(h) : TRUE

FiveHeadingsInOrder ==
    /\ \A h \in {"A", "K", "D", "C", "O"} : Cardinality(HeadingPositions(h)) = 1
    /\ HeadingAt("A") < HeadingAt("K")
    /\ HeadingAt("K") < HeadingAt("D")
    /\ HeadingAt("D") < HeadingAt("C")
    /\ HeadingAt("C") < HeadingAt("O")

\* C18: a package created for a fresh name N has a manifest with name N and
\* an empty tools list and a document with the five headings once each in
\* the order of the template, and its manifest lists every tool module a
\* scan of its tools directory returns.
C18_PackageInitialization ==
    pc = "created" =>
        /\ manifest.name = create_args.name
        /\ manifest.tools = <<>>
        /\ FiveHeadingsInOrder
        /\ \A f \in Scannable(tools_dir) :
              InList(SubSeq(f, 1, Len(f) - 3), manifest.tools)

\* the part of C18 about the manifest fields and the document alone
CreatedManifestAndDocument ==
    pc = "created" =>
        /\ manifest.name = create_args.name
        /\ manifest.tools = <<>>
        /\ FiveHeadingsInOrder


-----------------------------------------------------------------------------
(* The three writers of manifest.json on one package, in any sequence:      *)
(* generate_documents, update_manifest and update_manifest_tools.          *)

MaxMerges == 2

\* payloads of the manifest block; one of them carries a name and a version
MergePayloads ==
    { "{}",
      "{\"description\": \"d1\"}",
      "{\"tags\": [\"t1\"]}",
      "{\"name\": \"other\", \"version\": \"9\", \"description\": \"d1\"}",
      "{\"description\": \"d1\"" }

\* what the service may answer to the generation request
MergeResponses ==
    { <<>> }
    \cup { SKILL_MD_START \o <<"\n", "doc1", "\n">> \o SKILL_MD_END \o <<"\n">>
             \o MANIFEST_JSON_START \o <<"\n", j, "\n">> \o MANIFEST_JSON_END :
           j \in MergePayloads }

\* the tool lists skill_compiler.main passes to update_manifest_tools
ResyncLists ==
    { <<[name |-> <<"a">>]>>,
      <<[name |-> <<"a">>], [name |-> <<"b">>]>>,
      <<[name |-> <<"b">>]>> }

\* generate_documents, lines 94-133, in one step: the call, the document
\* block, then the manifest block (a payload that does not decode to an
\* object leaves with an exception after SKILL.md was written)
GenerateDocumentsCall ==
    /\ pc \in Idle
    /\ calls.generation < MaxMerges
    /\ pkg.dir /\ pkg.manifest_json /\ pkg.skill_md_file
    /\ \E r \in MergeResponses :
         LET block == ParseBetween(r, SKILL_MD_START, SKILL_MD_END)
             manifest_str == ParseBetween(r, MANIFEST_JSON_START, MANIFEST_JSON_END)
             updates == JsonLoads(Strip(manifest_str.text))
         IN /\ result_text' = r
            /\ skill_md' = IF Truthy(block) THEN Strip(block.text) \o <<"\n">> ELSE skill_md
            /\ IF ~Truthy(manifest_str)
               THEN pc' = "idle" /\ UNCHANGED <<manifest, loaded>>
               ELSE /\ loaded' = manifest
                    /\ IF updates.ok /\ updates.kind = "object"
                       THEN pc' = "idle" /\ manifest' = MergeUpdates(manifest, updates)
                       ELSE pc' = "raised" /\ UNCHANGED manifest
    /\ calls' = [calls EXCEPT !.generation = @ + 1]
    /\ UNCHANGED <<pkg, tools_dir, schema_file, messages, assistant_text,
                   user_input, terminated, tools, func_name, skill_doc,
                   content, edits, parse_args, parsed, file_path, analysis,
                   answer, functions, done, refactored, create_args>>

\* update_manifest_tools(skill_dir, tools), lines 148-156
UpdateManifestToolsCall ==
    /\ pc \in Idle
    /\ pkg.dir /\ pkg.manifest_json
    /\ \E ts \in ResyncLists :
         /\ tools' = ts
         /\ manifest' = UpdateManifestTools(manifest, ts)
    /\ loaded' = manifest
    /\ pc' = "compiled"
    /\ UNCHANGED <<pkg, skill_md, tools_dir, schema_file, calls, messages,
                   assistant_text, user_input, terminated, result_text,
                   func_name, skill_doc, content, edits, parse_args, parsed,
                   file_path, analysis, answer, functions, done, refactored,
                   create_args>>

InitMerges ==
    /\ pc = "idle"
    /\ pkg = ValidPkg
    /\ manifest \in { CreateManifest(n, a, ind) :
                        n \in SkillNames, a \in Authors, ind \in Industries }
    /\ skill_md = SkillMdTemplate(manifest.name)
    /\ tools_dir = [NoFiles EXCEPT ![INIT_PY] = "ok", ![EXAMPLE_TOOL_PY] = "ok"]
    /\ schema_file = <<>>
    /\ calls = NoCalls
    /\ messages = <<>>
    /\ assistant_text = <<>>
    /\ user_input = <<>>
    /\ terminated = "no"
    /\ result_text = <<>>
    /\ tools = <<>>
    /\ func_name = <<>>
    /\ skill_doc = <<>>
    /\ content = <<>>
    /\ loaded = ManifestOf("", "", <<>>, <<>>)
    /\ edits = 0
    /\ parsed = None
    /\ parse_args = NoArgs
    /\ file_path = NoFile
    /\ analysis = NoAnalysis
    /\ answer = None
    /\ functions = <<>>
    /\ done = 0
    /\ refactored = NoRefactor
    /\ create_args = [name |-> manifest.name, author |-> manifest.author,
                      industry |-> manifest.industry]

NextMerges ==
    \/ GenerateDocumentsCall
    \/ UpdateManifestCall
    \/ UpdateManifestToolsCall

SpecMerges == InitMerges /\ [][NextMerges]_vars

-----------------------------------------------------------------------------
(* Claims about the manifest across merges, checked under SpecMerges *)

\* the fields no merge owns
IdentityKept ==
    /\ manifest'.name = manifest.name
    /\ manifest'.version = manifest.version
    /\ manifest'.author = manifest.author
    /\ manifest'.industry = manifest.industry
    /\ manifest'.knowledge = manifest.knowledge

\* C21: through every sequence of document-synthesis merges, append-if-absent
\* merges and full resyncs the manifest keeps the name given at creation,
\* and its version, author, industry and knowledge; the document-synthesis
\* merge changes description and tags only, the other two change tools only.
C21_ManifestIdentityImmutable ==
    [][/\ IdentityKept
       /\ manifest.name = create_args.name /\ manifest'.name = create_args'.name
       /\ (calls'.generation # calls.generation) => manifest'.tools = manifest.tools
       /\ (pc' \in {"registered", "compiled"}) =>
             /\ manifest'.description = manifest.description
             /\ manifest'.tags = manifest.tags
      ]_vars

C21_Witness ==
    /\ pc = "registered"
    /\ calls.generation = 1
    /\ Contains(result_text, <<"{\"name\": \"other\", \"version\": \"9\", \"description\": \"d1\"}">>)
    /\ manifest.description = "d1"
    /\ manifest.name = "risk-eval"
    /\ tools = <<[name |-> <<"a">>], [name |-> <<"b">>]>>
    /\ manifest.tools = << <<"a">>, <<"b">>, <<"x">> >>

====
